---------------------------- MODULE Spec2Model ----------------------------
(***************************************************************************)
(* A model of doRegisterAllocation (reg_alloc.c): the five stages of the   *)
(* register allocator as one state machine.  One step of the machine is    *)
(* one iteration of one of the function's loops.  Arrays keep the C        *)
(* indices (0 .. n-1); the instruction list is a sequence, so instruction *)
(* ii is instrs[ii + 1] and usage entry ih is instrs[ii + 1][ih + 1].      *)
(***************************************************************************)
EXTENDS Integers, Sequences, FiniteSets

(***************************************************************************)
(* Bounds of the model.                                                    *)
(***************************************************************************)
MaxInstrs == 2
MaxUsage == 3
MaxMentions == 3
MaxVregs == 3
N_SPILL64S == 2

rreg_info_size == 4

(***************************************************************************)
(* Registers.  An HReg carries its virtuality, its class and its number.   *)
(***************************************************************************)
mkHReg(v, c, n) == [virt |-> v, cls |-> c, num |-> n]
hregIsVirtual(h) == h.virt
hregNumber(h) == h.num
hregClass(h) == h.cls

INVALID_HREG == mkHReg(FALSE, "HRcINVALID", -1)

\* The virtual registers are integer registers; real register 1 is a
\* floating-point register and the other real registers are integer ones.
VReg(n) == mkHReg(TRUE, "HRcInt", n)
RReg(n) == mkHReg(FALSE, IF n = 1 THEN "HRcFlt64" ELSE "HRcInt", n)

\* The registers the allocator may use, and one beyond its control.
available_real_regs == [k \in 0..1 |-> RReg(k)]
n_available_real_regs == Cardinality(DOMAIN available_real_regs)
OtherRReg == RReg(n_available_real_regs)

hregToIndex(h, regs, n) ==
    IF \E k \in 0..(n - 1) : regs[k] = h
    THEN CHOOSE k \in 0..(n - 1) : regs[k] = h
    ELSE -1

Modes == {"HRmRead", "HRmWrite", "HRmModify"}

(***************************************************************************)
(* Memory that malloc returned and nothing has written yet, and locals    *)
(* that are read before they are set, hold an indeterminate value.  A     *)
(* cell is Undef until it is written; a test that reads an Undef cell     *)
(* sees some value of Garbage.                                            *)
(***************************************************************************)
Def(x) == [def |-> TRUE, val |-> x]
Undef == [def |-> FALSE, val |-> 0]
Garbage == {-1, 0}
Resolve(c, g) == IF c.def THEN c.val ELSE g

(***************************************************************************)
(* The input: what getRegUsage answers for each instruction.               *)
(***************************************************************************)
Mentions(regs) == [hreg : regs, mode : Modes]
VMentions == Mentions({VReg(n) : n \in 0..(MaxVregs - 1)})
RMentions == Mentions({RReg(n) : n \in 0..n_available_real_regs})
MixedMentions ==
    Mentions({VReg(0), RReg(0)})
        \cup {[hreg |-> OtherRReg, mode |-> "HRmRead"],
              [hreg |-> VReg(MaxVregs), mode |-> "HRmWrite"]}

\* The usage lists of exactly n instructions with at most budget mentions
\* in all, over the mentions A.
Min(a, b) == IF a < b THEN a ELSE b
RECURSIVE ProgramsOfLen(_, _, _)
ProgramsOfLen(A, n, budget) ==
    IF n = 0 THEN {<< >>}
    ELSE UNION {{<<u>> \o p : u \in [1..k -> A],
                              p \in ProgramsOfLen(A, n - 1, budget - k)} :
                  k \in 0..Min(MaxUsage, budget)}
ProgramsOver(A) ==
    UNION {ProgramsOfLen(A, n, MaxMentions) : n \in 0..MaxInstrs}
Programs ==
    ProgramsOver(VMentions) \cup ProgramsOver(RMentions)
        \cup ProgramsOver(MixedMentions)

VARIABLES
    instrs,            \* the usage list of each instruction
    n_vregs,
    output,            \* the instructions the function has emitted
    pc,                \* where the function is
    diag,              \* the diagnostic it aborted with, "" if none
    ii, ih, ir, i,     \* the loop indices
    vreg_info,
    rreg_live_after, rreg_dead_before,
    rreg_info, rreg_info_used,
    ss_busy_until_before,
    rreg_state

vars == <<instrs, n_vregs, output, pc, diag, ii, ih, ir, i, vreg_info,
          rreg_live_after, rreg_dead_before, rreg_info, rreg_info_used,
          ss_busy_until_before, rreg_state>>

n_instrs == Len(instrs)
reg_usage == instrs[ii + 1]
n_used == Len(reg_usage)

\* The state after the table of stage 1 is set up.  The arrays of the later
\* stages are not allocated yet; a loop index means something only inside
\* the loop that sets it.
VRegInfoInit ==
    [live_after |-> -1, dead_before |-> -1, spill_offset |-> 0,
     spill_size |-> 0, has_preference |-> FALSE,
     preferred_rreg |-> INVALID_HREG]

\* The function called on one of the programs progs with one of the table
\* sizes nvs.  No statement of the function builds or returns a list of
\* instructions, so what it has emitted is the empty list throughout.
InitWith(progs, nvs) ==
    /\ instrs \in progs
    /\ n_vregs \in nvs
    /\ output = << >>
    /\ pc = "stage1"
    /\ diag = ""
    /\ ii = 0
    /\ ih = 0
    /\ ir = 0
    /\ i = 0
    /\ vreg_info = [iv \in 0..(n_vregs - 1) |-> VRegInfoInit]
    /\ rreg_live_after = << >>
    /\ rreg_dead_before = << >>
    /\ rreg_info = << >>
    /\ rreg_info_used = 0
    /\ ss_busy_until_before = << >>
    /\ rreg_state = << >>

Init == InitWith(Programs, {0, MaxVregs})

Abort(msg) ==
    /\ pc' = "abort"
    /\ diag' = msg


(***************************************************************************)
(* Stage 1: compute vreg live ranges.                                      *)
(***************************************************************************)

\* The switch on the mode of one mention of vreg iv at instruction at:
\* the diagnostic it aborts with ("" if none) and the VRegInfo it leaves.
Stage1SwitchNoReadCheck(vi, mode, at) ==
    CASE mode = "HRmRead" ->
           [diag |-> "", vi |-> [vi EXCEPT !.dead_before = at]]
      [] mode = "HRmWrite" ->
           [diag |-> "",
            vi |-> [vi EXCEPT
                      !.live_after = IF vi.live_after = -1 THEN at ELSE @,
                      !.dead_before = at + 1]]
      [] mode = "HRmModify" ->
           IF vi.live_after = -1
           THEN [diag |-> "first event for vreg is Modify", vi |-> vi]
           ELSE [diag |-> "", vi |-> [vi EXCEPT !.dead_before = at + 1]]
      [] OTHER -> [diag |-> "doRegisterAllocation(1)", vi |-> vi]

Stage1Switch(vi, mode, at) ==
    CASE mode = "HRmRead" ->
           IF vi.live_after = -1
           THEN [diag |-> "first event for vreg is Read", vi |-> vi]
           ELSE [diag |-> "", vi |-> [vi EXCEPT !.dead_before = at]]
      [] mode = "HRmWrite" ->
           [diag |-> "",
            vi |-> [vi EXCEPT
                      !.live_after = IF vi.live_after = -1 THEN at ELSE @,
                      !.dead_before = at + 1]]
      [] mode = "HRmModify" ->
           IF vi.live_after = -1
           THEN [diag |-> "first event for vreg is Modify", vi |-> vi]
           ELSE [diag |-> "", vi |-> [vi EXCEPT !.dead_before = at + 1]]
      [] OTHER -> [diag |-> "doRegisterAllocation(1)", vi |-> vi]

\* The body of the loop over the registers of instruction at, for one
\* mention, on the table info of nv entries.
Stage1BodyNoAssert(info, nv, men, at) ==
    IF ~hregIsVirtual(men.hreg)
    THEN [diag |-> "", info |-> info]
    ELSE LET iv == hregNumber(men.hreg) IN
         IF ~(iv >= 0 /\ iv < nv)
         THEN [diag |-> "", info |-> info]
         ELSE LET r == Stage1Switch(info[iv], men.mode, at) IN
              [diag |-> r.diag, info |-> [info EXCEPT ![iv] = r.vi]]

Stage1Body(info, nv, men, at) ==
    IF ~hregIsVirtual(men.hreg)
    THEN [diag |-> "", info |-> info]
    ELSE LET iv == hregNumber(men.hreg) IN
         IF ~(iv >= 0 /\ iv < nv)
         THEN [diag |-> "assert(iv >= 0 && iv < n_vregs)", info |-> info]
         ELSE LET r == Stage1Switch(info[iv], men.mode, at) IN
              [diag |-> r.diag, info |-> [info EXCEPT ![iv] = r.vi]]

\* The whole scan, from entry h of instruction k on, as a function of the
\* input: the diagnostic it aborts with ("" if none) and the table.
RECURSIVE Stage1ScanFrom(_, _, _, _, _)
Stage1ScanFrom(prog, nv, info, k, h) ==
    IF k = Len(prog) THEN [diag |-> "", info |-> info]
    ELSE IF h = Len(prog[k + 1]) THEN Stage1ScanFrom(prog, nv, info, k + 1, 0)
    ELSE LET r == Stage1Body(info, nv, prog[k + 1][h + 1], k) IN
         IF r.diag # "" THEN r
         ELSE Stage1ScanFrom(prog, nv, r.info, k, h + 1)

Stage1Scan(prog, nv) ==
    Stage1ScanFrom(prog, nv, [iv \in 0..(nv - 1) |-> VRegInfoInit], 0, 0)

Stage1Mention ==
    /\ pc = "stage1"
    /\ ii < n_instrs
    /\ ih < n_used
    /\ LET r == Stage1Body(vreg_info, n_vregs, reg_usage[ih + 1], ii) IN
         IF r.diag # ""
         THEN /\ Abort(r.diag)
              /\ UNCHANGED <<ih, vreg_info>>
         ELSE /\ vreg_info' = r.info
              /\ ih' = ih + 1
              /\ UNCHANGED <<pc, diag>>
    /\ UNCHANGED <<instrs, n_vregs, output, ii, ir, i, rreg_live_after,
                   rreg_dead_before, rreg_info, rreg_info_used,
                   ss_busy_until_before, rreg_state>>

Stage1NextInstr ==
    /\ pc = "stage1"
    /\ ii < n_instrs
    /\ ih = n_used
    /\ ii' = ii + 1
    /\ ih' = 0
    /\ UNCHANGED <<instrs, n_vregs, output, pc, diag, ir, i, vreg_info,
                   rreg_live_after, rreg_dead_before, rreg_info,
                   rreg_info_used, ss_busy_until_before, rreg_state>>

(***************************************************************************)
(* Stage 2: compute rreg live ranges.                                      *)
(***************************************************************************)

\* Stage 1's loop is over; the arrays of stage 2 are allocated.  The loop
\* that should set every rreg_live_after[ir] and rreg_dead_before[ir] to -1
\* writes element i in each of its rounds, and i has not been set: k is the
\* value i happens to hold (k = n_available_real_regs: outside the arrays).
Stage2Begin ==
    /\ pc = "stage1"
    /\ ii = n_instrs
    /\ \E k \in 0..n_available_real_regs :
         /\ rreg_live_after' =
              [x \in 0..(n_available_real_regs - 1) |->
                 IF x = k THEN Def(-1) ELSE Undef]
         /\ rreg_dead_before' =
              [x \in 0..(n_available_real_regs - 1) |->
                 IF x = k THEN Def(-1) ELSE Undef]
    /\ rreg_info_used' = 0
    /\ rreg_info' =
         [x \in 0..(rreg_info_size - 1) |->
            [rreg |-> Undef, live_after |-> Undef, dead_before |-> Undef]]
    /\ pc' = "stage2"
    /\ ii' = 0
    /\ ih' = 0
    /\ UNCHANGED <<instrs, n_vregs, output, diag, ir, i, vreg_info,
                   ss_busy_until_before, rreg_state>>


\* The index ir of a real register among the allocatable ones, -1 for a
\* register beyond the allocator's control.
Stage2IndexNoFilter(hreg) ==
    IF hregToIndex(hreg, available_real_regs, n_available_real_regs) = -1
    THEN 0
    ELSE hregToIndex(hreg, available_real_regs, n_available_real_regs)

Stage2Index(hreg) ==
    hregToIndex(hreg, available_real_regs, n_available_real_regs)

\* The body of the loop over the registers of instruction at, for one
\* mention: the per-rreg open ranges la and db, the RRegInfo array info and
\* its fill count used.  g is what a test of a cell never written sees.
Stage2Body(la, db, info, used, men, at, g) ==
    LET same == [diag |-> "", la |-> la, db |-> db, info |-> info,
                 used |-> used]
        hreg == men.hreg
        x    == Stage2Index(hreg)
    IN
    IF hregIsVirtual(hreg) THEN same
    ELSE IF x = -1 THEN same
    ELSE CASE men.mode = "HRmWrite" ->
                IF used = rreg_info_size
                THEN [same EXCEPT
                        !.diag = "make rreg info array bigger(1)",
                        !.la = [la EXCEPT ![x] = Def(at)],
                        !.db = [db EXCEPT ![x] = Def(at + 1)]]
                ELSE [same EXCEPT
                        !.la = [la EXCEPT ![x] = Def(at)],
                        !.db = [db EXCEPT ![x] = Def(at + 1)],
                        !.info = [info EXCEPT ![used] =
                                    [rreg |-> Def(hreg),
                                     live_after |-> la[x],
                                     dead_before |-> db[x]]]]
           [] men.mode = "HRmRead" ->
                IF Resolve(la[x], g) = -1
                THEN [same EXCEPT
                        !.diag = "first event for rreg is Read",
                        !.la = [la EXCEPT ![x] = Def(-1)]]
                ELSE [same EXCEPT
                        !.la = [la EXCEPT ![x] = Def(Resolve(la[x], g))],
                        !.db = [db EXCEPT ![x] = Def(at)]]
           [] men.mode = "HRmModify" ->
                IF Resolve(la[x], g) = -1
                THEN [same EXCEPT
                        !.diag = "first event for rreg is Modify",
                        !.la = [la EXCEPT ![x] = Def(-1)]]
                ELSE [same EXCEPT
                        !.la = [la EXCEPT ![x] = Def(Resolve(la[x], g))],
                        !.db = [db EXCEPT ![x] = Def(at + 1)]]
           [] OTHER -> [same EXCEPT !.diag = "doRegisterAllocation(2)"]

Stage2Mention ==
    /\ pc = "stage2"
    /\ ii < n_instrs
    /\ ih < n_used
    /\ \E g \in Garbage :
         LET r == Stage2Body(rreg_live_after, rreg_dead_before, rreg_info,
                             rreg_info_used, reg_usage[ih + 1], ii, g)
         IN
         /\ rreg_live_after' = r.la
         /\ rreg_dead_before' = r.db
         /\ rreg_info' = r.info
         /\ rreg_info_used' = r.used
         /\ IF r.diag # ""
            THEN Abort(r.diag) /\ UNCHANGED ih
            ELSE ih' = ih + 1 /\ UNCHANGED <<pc, diag>>
    /\ UNCHANGED <<instrs, n_vregs, output, ii, ir, i, vreg_info,
                   ss_busy_until_before, rreg_state>>

Stage2NextInstr ==
    /\ pc = "stage2"
    /\ ii < n_instrs
    /\ ih = n_used
    /\ ii' = ii + 1
    /\ ih' = 0
    /\ UNCHANGED <<instrs, n_vregs, output, pc, diag, ir, i, vreg_info,
                   rreg_live_after, rreg_dead_before, rreg_info,
                   rreg_info_used, ss_busy_until_before, rreg_state>>

Stage2ScanDone ==
    /\ pc = "stage2"
    /\ ii = n_instrs
    /\ pc' = "stage2_finish"
    /\ ir' = 0
    /\ UNCHANGED <<instrs, n_vregs, output, diag, ii, ih, i, vreg_info,
                   rreg_live_after, rreg_dead_before, rreg_info,
                   rreg_info_used, ss_busy_until_before, rreg_state>>

\* One round of the loop that finishes up the live ranges left over, for
\* rreg index x.  The rreg it records is available_real_regs[ri], and ri is
\* never set: the recorded register is indeterminate.
Stage2FinishBody(la, db, info, used, x, g) ==
    LET same == [diag |-> "", la |-> la, info |-> info, used |-> used] IN
    IF Resolve(la[x], g) = -1
    THEN [same EXCEPT !.la = [la EXCEPT ![x] = Def(-1)]]
    ELSE IF used = rreg_info_size
    THEN [same EXCEPT !.diag = "make rreg info array bigger(2)"]
    ELSE [same EXCEPT
            !.la = [la EXCEPT ![x] = Def(Resolve(la[x], g))],
            !.info = [info EXCEPT ![used] =
                        [rreg |-> Undef,
                         live_after |-> Def(Resolve(la[x], g)),
                         dead_before |-> db[x]]]]

Stage2Finish ==
    /\ pc = "stage2_finish"
    /\ ir < n_available_real_regs
    /\ \E g \in Garbage :
         LET r == Stage2FinishBody(rreg_live_after, rreg_dead_before,
                                   rreg_info, rreg_info_used, ir, g)
         IN
         /\ rreg_live_after' = r.la
         /\ rreg_info' = r.info
         /\ rreg_info_used' = r.used
         /\ IF r.diag # ""
            THEN Abort(r.diag) /\ UNCHANGED ir
            ELSE ir' = ir + 1 /\ UNCHANGED <<pc, diag>>
    /\ UNCHANGED <<instrs, n_vregs, output, ii, ih, i, vreg_info, rreg_dead_before,
                   ss_busy_until_before, rreg_state>>


(***************************************************************************)
(* Stage 3: allocate spill slots.                                          *)
(***************************************************************************)

\* The leftover loop is over: the per-rreg arrays are freed and every
\* spill slot is marked free from the start.
Stage3Begin ==
    /\ pc = "stage2_finish"
    /\ ir = n_available_real_regs
    /\ rreg_live_after' = << >>
    /\ rreg_dead_before' = << >>
    /\ ss_busy_until_before' = [j \in 0..(N_SPILL64S - 1) |-> 0]
    /\ i' = 0
    /\ pc' = "stage3"
    /\ UNCHANGED <<instrs, n_vregs, output, diag, ii, ih, ir, vreg_info, rreg_info,
                   rreg_info_used, rreg_state>>

\* The slot search: the value of j when the loop over the slots ends.
FindSlotLast(busy, la) ==
    IF \E j \in 0..(N_SPILL64S - 1) : busy[j] <= la
    THEN CHOOSE j \in 0..(N_SPILL64S - 1) :
           /\ busy[j] <= la
           /\ \A k \in (j + 1)..(N_SPILL64S - 1) : ~(busy[k] <= la)
    ELSE N_SPILL64S

FindSlotAny(busy, la) == 0

FindSlot(busy, la) ==
    IF \E j \in 0..(N_SPILL64S - 1) : busy[j] <= la
    THEN CHOOSE j \in 0..(N_SPILL64S - 1) :
           /\ busy[j] <= la
           /\ \A k \in 0..(j - 1) : ~(busy[k] <= la)
    ELSE N_SPILL64S

\* One round of the loop over the vregs, for the entry vi.
Stage3BodyBusyLive(busy, vi) ==
    IF vi.live_after = -1
    THEN [diag |-> "", busy |-> busy, vi |-> vi]
    ELSE LET j == FindSlot(busy, vi.live_after) IN
         IF j = N_SPILL64S
         THEN [diag |-> "N_SPILL64S is too low", busy |-> busy, vi |-> vi]
         ELSE [diag |-> "",
               busy |-> [busy EXCEPT ![j] = vi.live_after],
               vi |-> [vi EXCEPT !.spill_offset = j * 8]]

Stage3Body(busy, vi) ==
    IF vi.live_after = -1
    THEN [diag |-> "", busy |-> busy, vi |-> vi]
    ELSE LET j == FindSlot(busy, vi.live_after) IN
         IF j = N_SPILL64S
         THEN [diag |-> "N_SPILL64S is too low", busy |-> busy, vi |-> vi]
         ELSE [diag |-> "",
               busy |-> [busy EXCEPT ![j] = vi.dead_before],
               vi |-> [vi EXCEPT !.spill_offset = j * 8]]

Stage3Step ==
    /\ pc = "stage3"
    /\ i < n_vregs
    /\ LET r == Stage3Body(ss_busy_until_before, vreg_info[i]) IN
         /\ ss_busy_until_before' = r.busy
         /\ vreg_info' = [vreg_info EXCEPT ![i] = r.vi]
         /\ IF r.diag # ""
            THEN Abort(r.diag) /\ UNCHANGED i
            ELSE i' = i + 1 /\ UNCHANGED <<pc, diag>>
    /\ UNCHANGED <<instrs, n_vregs, output, ii, ih, ir, rreg_live_after,
                   rreg_dead_before, rreg_info, rreg_info_used, rreg_state>>

(***************************************************************************)
(* Stage 4 establishes no preference.  Stage 5: process instructions.     *)
(***************************************************************************)

\* The running state the loop over the instructions starts from.
RRegStateInitUnavail ==
    [x \in 0..(n_available_real_regs - 1) |->
       [rreg |-> available_real_regs[x], disp |-> "Unavail",
        vreg |-> INVALID_HREG]]

RRegStateInitBoundToOne ==
    [x \in 0..(n_available_real_regs - 1) |->
       [rreg |-> available_real_regs[x], disp |-> "Bound",
        vreg |-> VReg(0)]]

RRegStateInitBoundToNone ==
    [x \in 0..(n_available_real_regs - 1) |->
       [rreg |-> available_real_regs[x],
        disp |-> IF x = 0 THEN "Bound" ELSE "Free",
        vreg |-> INVALID_HREG]]

RRegStateInitStale ==
    [x \in 0..(n_available_real_regs - 1) |->
       [rreg |-> available_real_regs[x], disp |-> "Free",
        vreg |-> VReg(0)]]

RRegStateInit ==
    [x \in 0..(n_available_real_regs - 1) |->
       [rreg |-> available_real_regs[x], disp |-> "Free",
        vreg |-> INVALID_HREG]]

Stage5Begin ==
    /\ pc = "stage3"
    /\ i = n_vregs
    /\ rreg_state' = RRegStateInit
    /\ ii' = 0
    /\ pc' = "stage5"
    /\ UNCHANGED <<instrs, n_vregs, output, diag, ih, ir, i, vreg_info,
                   rreg_live_after, rreg_dead_before, rreg_info,
                   rreg_info_used, ss_busy_until_before>>

\* Whether the recorded range k, of info, has instruction at strictly
\* inside it.
Crosses(info, k, at, g) ==
    /\ Resolve(info[k].live_after, g) < at
    /\ at < Resolve(info[k].dead_before, g)

\* Sanity check 1 reads rreg_state at the recorded register; b is what the
\* comparison gives when that register is indeterminate or not one of
\* the running state's.
SanityCheck1(state, info, used, at, g, b) ==
    \A k \in 0..(used - 1) :
       Crosses(info, k, at, g) =>
          LET x == IF info[k].rreg.def
                   THEN hregToIndex(info[k].rreg.val, available_real_regs,
                                    n_available_real_regs)
                   ELSE -1
          IN IF x = -1 THEN b ELSE state[x].disp = "Unavail"

SanityCheck2(state, info, used, at, g, b) ==
    \A x \in 0..(n_available_real_regs - 1) :
       /\ state[x].disp \in {"Free", "Unavail", "Bound"}
       /\ state[x].disp = "Unavail" =>
            \E k \in 0..(used - 1) :
               /\ IF info[k].rreg.def
                  THEN info[k].rreg.val = state[x].rreg
                  ELSE b
               /\ Crosses(info, k, at, g)

SanityCheck3(state) ==
    \A x \in 0..(n_available_real_regs - 1) :
       state[x].disp = "Bound" =>
          \A j \in (x + 1)..(n_available_real_regs - 1) :
             state[j].disp = "Bound" => state[x].vreg # state[j].vreg

SanityCheck4(state) ==
    \A x \in 0..(n_available_real_regs - 1) :
       state[x].disp = "Bound" =>
          /\ hregClass(state[x].rreg) = hregClass(state[x].vreg)
          /\ hregIsVirtual(state[x].vreg)
          /\ ~hregIsVirtual(state[x].rreg)

\* Expire the bindings of the vregs that have become dead before at.
ExpireAsserts(state, nv) ==
    \A x \in 0..(n_available_real_regs - 1) :
       state[x].disp = "Bound" =>
          (hregNumber(state[x].vreg) >= 0 /\ hregNumber(state[x].vreg) < nv)

ExpireAll(state, info, at) ==
    [x \in 0..(n_available_real_regs - 1) |->
       IF state[x].disp = "Bound"
       THEN [state[x] EXCEPT !.disp = "Free", !.vreg = INVALID_HREG]
       ELSE state[x]]

Expire(state, info, at) ==
    [x \in 0..(n_available_real_regs - 1) |->
       IF /\ state[x].disp = "Bound"
          /\ info[hregNumber(state[x].vreg)].dead_before = at
       THEN [state[x] EXCEPT !.disp = "Free", !.vreg = INVALID_HREG]
       ELSE state[x]]

\* One round of the loop over the instructions: the sanity checks, then
\* the expiry.  Nothing follows the expiry in the loop body.
Stage5Step ==
    /\ pc = "stage5"
    /\ ii < n_instrs
    /\ \E g \in Garbage, b \in BOOLEAN :
         IF ~SanityCheck1(rreg_state, rreg_info, rreg_info_used, ii, g, b)
         THEN Abort("sanity check 1") /\ UNCHANGED <<ii, rreg_state>>
         ELSE IF ~SanityCheck2(rreg_state, rreg_info, rreg_info_used,
                               ii, g, b)
         THEN Abort("sanity check 2") /\ UNCHANGED <<ii, rreg_state>>
         ELSE IF ~SanityCheck3(rreg_state)
         THEN Abort("sanity check 3") /\ UNCHANGED <<ii, rreg_state>>
         ELSE IF ~SanityCheck4(rreg_state)
         THEN Abort("sanity check 4") /\ UNCHANGED <<ii, rreg_state>>
         ELSE IF ~ExpireAsserts(rreg_state, n_vregs)
         THEN Abort("assert(iv >= 0 && iv < n_vregs)")
              /\ UNCHANGED <<ii, rreg_state>>
         ELSE /\ rreg_state' = Expire(rreg_state, vreg_info, ii)
              /\ ii' = ii + 1
              /\ UNCHANGED <<pc, diag>>
    /\ UNCHANGED <<instrs, n_vregs, output, ih, ir, i, vreg_info, rreg_live_after,
                   rreg_dead_before, rreg_info, rreg_info_used,
                   ss_busy_until_before>>

Stage5Done ==
    /\ pc = "stage5"
    /\ ii = n_instrs
    /\ pc' = "done"
    /\ UNCHANGED <<instrs, n_vregs, output, diag, ii, ih, ir, i, vreg_info,
                   rreg_live_after, rreg_dead_before, rreg_info,
                   rreg_info_used, ss_busy_until_before, rreg_state>>

Next ==
    \/ Stage1Mention
    \/ Stage1NextInstr
    \/ Stage2Begin
    \/ Stage2Mention
    \/ Stage2NextInstr
    \/ Stage2ScanDone
    \/ Stage2Finish
    \/ Stage3Begin
    \/ Stage3Step
    \/ Stage5Begin
    \/ Stage5Step
    \/ Stage5Done

Spec == Init /\ [][Next]_vars

(***************************************************************************)
(* The function on the programs of one scenario: v0 is written by          *)
(* instruction 0 and read by instruction 5, and instruction 3 writes real  *)
(* register 0, the only allocatable register of v0's class.  The other     *)
(* instructions are any of Fillers.                                        *)
(***************************************************************************)
Mention(h, m) == [hreg |-> h, mode |-> m]
Fillers ==
    {<< >>, <<Mention(VReg(0), "HRmModify")>>,
     <<Mention(RReg(1), "HRmWrite")>>, <<Mention(OtherRReg, "HRmRead")>>}
S4Programs ==
    {<< <<Mention(VReg(0), "HRmWrite")>>, a, b,
        <<Mention(RReg(0), "HRmWrite")>>, c,
        <<Mention(VReg(0), "HRmRead")>> >> : a, b, c \in Fillers}
InitS4 == InitWith(S4Programs, {1, MaxVregs})
SpecS4 == InitS4 /\ [][Next]_vars


(***************************************************************************)
(* The function on the programs of one instruction with one mention more   *)
(* than MaxMentions, over the writes and reads of the vregs.               *)
(***************************************************************************)
DenseLen == MaxMentions + 1
DensePrograms ==
    {<<u>> : u \in [1..DenseLen ->
                      [hreg : {VReg(n) : n \in 0..(MaxVregs - 1)},
                       mode : {"HRmWrite", "HRmRead"}]]}
InitDense == InitWith(DensePrograms, {MaxVregs})
SpecDense == InitDense /\ [][Next]_vars

(***************************************************************************)
(* The loop of stage 5 as a unit.  No statement of the function makes an   *)
(* rreg Unavail or Bound and none counts a recorded hard live range, so    *)
(* the function itself brings only all-Free tables to the loop.  Here the  *)
(* loop starts from any running state and any one recorded range, on the  *)
(* table stage 1 computes for a program; stage 5 does not read the spill   *)
(* offsets.                                                                *)
(***************************************************************************)
Running ==
    {[disp |-> "Free", vreg |-> INVALID_HREG],
     [disp |-> "Unavail", vreg |-> INVALID_HREG]}
        \cup {[disp |-> "Bound", vreg |-> VReg(v)] : v \in 0..(MaxVregs - 1)}
RRegStates ==
    {[x \in 0..(n_available_real_regs - 1) |->
        [rreg |-> available_real_regs[x], disp |-> f[x].disp,
         vreg |-> f[x].vreg]] :
       f \in [0..(n_available_real_regs - 1) -> Running]}
NoRRegInfo ==
    [k \in 0..(rreg_info_size - 1) |->
       [rreg |-> Undef, live_after |-> Undef, dead_before |-> Undef]]
OneRRegInfo(h) ==
    [NoRRegInfo EXCEPT ![0] = [rreg |-> Def(h), live_after |-> Def(-1),
                               dead_before |-> Def(MaxInstrs)]]
Stage5Programs ==
    {p \in ProgramsOver(Mentions({VReg(0), VReg(1)})) :
        Stage1Scan(p, MaxVregs).diag = ""}

InitStage5 ==
    /\ instrs \in Stage5Programs
    /\ n_vregs = MaxVregs
    /\ output = << >>
    /\ pc = "stage5"
    /\ diag = ""
    /\ ii = 0
    /\ ih = 0
    /\ ir = n_available_real_regs
    /\ i = n_vregs
    /\ vreg_info = Stage1Scan(instrs, n_vregs).info
    /\ rreg_live_after = << >>
    /\ rreg_dead_before = << >>
    /\ \/ rreg_info = NoRRegInfo /\ rreg_info_used = 0
       \/ \E x \in 0..(n_available_real_regs - 1) :
             /\ rreg_info = OneRRegInfo(available_real_regs[x])
             /\ rreg_info_used = 1
    /\ ss_busy_until_before = [j \in 0..(N_SPILL64S - 1) |-> 0]
    /\ rreg_state \in RRegStates

NextStage5 ==
    \/ Stage5Step
    \/ Stage5Done

SpecStage5 == InitStage5 /\ [][NextStage5]_vars


(***************************************************************************)
(* The properties.                                                         *)
(***************************************************************************)

Stage1Diags ==
    {"first event for vreg is Read", "first event for vreg is Modify",
     "assert(iv >= 0 && iv < n_vregs)", "doRegisterAllocation(1)"}
Stage2Diags ==
    {"first event for rreg is Read", "first event for rreg is Modify",
     "make rreg info array bigger(1)", "make rreg info array bigger(2)",
     "doRegisterAllocation(2)"}

\* Stage 1 ran to its end without aborting.
Stage1Completed ==
    \/ pc \in {"stage2", "stage2_finish", "stage3", "stage5", "done"}
    \/ pc = "abort" /\ diag \notin Stage1Diags

Stage2Completed ==
    \/ pc \in {"stage3", "stage5", "done"}
    \/ pc = "abort" /\ diag \notin (Stage1Diags \cup Stage2Diags)

Stage3Completed == pc \in {"stage5", "done"}

\* The input seen in scan order.
MentionAt(k, h) == instrs[k + 1][h + 1]
Positions ==
    {q \in (0..(MaxInstrs + 1)) \X (0..(MaxUsage + 1)) :
        q[1] < n_instrs /\ q[2] < Len(instrs[q[1] + 1])}
Before(q1, q2) == q1[1] < q2[1] \/ (q1[1] = q2[1] /\ q1[2] < q2[2])
EarlierWrite(q) ==
    \E q1 \in Positions :
       /\ Before(q1, q)
       /\ MentionAt(q1[1], q1[2]).hreg = MentionAt(q[1], q[2]).hreg
       /\ MentionAt(q1[1], q1[2]).mode = "HRmWrite"
AtMention(stage) == pc = stage /\ ii < n_instrs /\ ih < n_used

\* C1: after stage 1 has completed without aborting, every vreg has
\* live_after = -1 or 0 <= live_after < dead_before <= n_instrs.
C1_LiveRangeShape ==
    Stage1Completed =>
       \A v \in 0..(n_vregs - 1) :
          \/ vreg_info[v].live_after = -1
          \/ /\ 0 <= vreg_info[v].live_after
             /\ vreg_info[v].live_after < vreg_info[v].dead_before
             /\ vreg_info[v].dead_before <= n_instrs

\* The permutations of a usage list.
Perms(u) ==
    {[x \in 1..Len(u) |-> u[f[x]]] :
        f \in {g \in [1..Len(u) -> 1..Len(u)] :
                 \A x, y \in 1..Len(u) : x # y => g[x] # g[y]}}

\* C2: when stage 1 has completed, the table it produced (the live_after
\* and the dead_before of every vreg) is the one the scan produces for
\* the input with the entries of any one instruction's usage list
\* permuted, whenever that scan completes too.
C2_UsageOrderIrrelevant ==
    pc = "stage2" =>
       \A k \in 1..n_instrs :
          \A u \in Perms(instrs[k]) :
             LET r == Stage1Scan([instrs EXCEPT ![k] = u], n_vregs) IN
             r.diag = "" =>
                \A v \in 0..(n_vregs - 1) :
                   /\ r.info[v].live_after = vreg_info[v].live_after
                   /\ r.info[v].dead_before = vreg_info[v].dead_before

\* A Read (Modify) mention of a vreg with no earlier Write mention.
VRegFirstEvent(q, mode) ==
    /\ hregIsVirtual(MentionAt(q[1], q[2]).hreg)
    /\ MentionAt(q[1], q[2]).mode = mode
    /\ ~EarlierWrite(q)
VRegInRange(q) ==
    /\ hregNumber(MentionAt(q[1], q[2]).hreg) >= 0
    /\ hregNumber(MentionAt(q[1], q[2]).hreg) < n_vregs
AllVRegsFirstWritten ==
    \A q \in Positions :
       ~VRegFirstEvent(q, "HRmRead") /\ ~VRegFirstEvent(q, "HRmModify")

\* C3 as stated: the step of stage 1 at a mention aborts with the "first
\* event for vreg is Read" (Modify) diagnostic exactly when the mention is
\* a Read (Modify) of a vreg with no earlier Write; and with every vreg
\* first written neither diagnostic is ever given.
C3_FirstEventAbortAnyVReg ==
    [][ /\ AtMention("stage1") =>
            /\ (pc' = "abort" /\ diag' = "first event for vreg is Read")
                  <=> VRegFirstEvent(<<ii, ih>>, "HRmRead")
            /\ (pc' = "abort" /\ diag' = "first event for vreg is Modify")
                  <=> VRegFirstEvent(<<ii, ih>>, "HRmModify")
        /\ AllVRegsFirstWritten =>
              diag' \notin {"first event for vreg is Read",
                            "first event for vreg is Modify"}
      ]_vars

\* C3, amended: the same, for mentions of a vreg numbered in
\* 0 .. n_vregs-1 (a mention of a vreg outside that range aborts by the
\* range assertion before its mode is looked at).
C3_FirstEventAbort ==
    [][ /\ AtMention("stage1") =>
            /\ (pc' = "abort" /\ diag' = "first event for vreg is Read")
                  <=> (VRegFirstEvent(<<ii, ih>>, "HRmRead")
                         /\ VRegInRange(<<ii, ih>>))
            /\ (pc' = "abort" /\ diag' = "first event for vreg is Modify")
                  <=> (VRegFirstEvent(<<ii, ih>>, "HRmModify")
                         /\ VRegInRange(<<ii, ih>>))
        /\ AllVRegsFirstWritten =>
              diag' \notin {"first event for vreg is Read",
                            "first event for vreg is Modify"}
      ]_vars

\* Stage 1 has aborted at a Read in the second instruction, of a vreg
\* never written, after it passed a Write of another vreg.
C3_Witness ==
    /\ pc = "abort"
    /\ diag = "first event for vreg is Read"
    /\ ii = 1
    /\ \E q \in Positions : MentionAt(q[1], q[2]).mode = "HRmWrite"


\* The hard live ranges of the input by the rules of stage 2: a Write of
\* an allocatable rreg opens a range (live_after = its instruction,
\* dead_before = the next one); a later Read at k moves dead_before to k
\* and a later Modify to k + 1, until the next Write of the same rreg.
Allocatable(h) ==
    /\ ~hregIsVirtual(h)
    /\ \E k \in DOMAIN available_real_regs : available_real_regs[k] = h
AllocWrites ==
    {q \in Positions :
        /\ Allocatable(MentionAt(q[1], q[2]).hreg)
        /\ MentionAt(q[1], q[2]).mode = "HRmWrite"}
\* The mentions that extend the range opened at q.
Extenders(q) ==
    {q2 \in Positions :
        /\ Before(q, q2)
        /\ MentionAt(q2[1], q2[2]).hreg = MentionAt(q[1], q[2]).hreg
        /\ \A q3 \in AllocWrites :
              (MentionAt(q3[1], q3[2]).hreg = MentionAt(q[1], q[2]).hreg
                 /\ Before(q, q3)) => Before(q2, q3)}
RangeEnd(q) ==
    IF Extenders(q) = {} THEN q[1] + 1
    ELSE LET last == CHOOSE q2 \in Extenders(q) :
                        \A q3 \in Extenders(q) : q3 = q2 \/ Before(q3, q2)
         IN IF MentionAt(last[1], last[2]).mode = "HRmRead"
            THEN last[1] ELSE last[1] + 1
HardRanges ==
    {[rreg |-> MentionAt(q[1], q[2]).hreg, live_after |-> q[1],
      dead_before |-> RangeEnd(q)] : q \in AllocWrites}

\* C4: after stage 2 the RRegInfo list holds exactly the hard live ranges
\* of the input, one entry for each Write of an allocatable rreg.
C4_RRegInfoIsTheHardRanges ==
    Stage2Completed =>
       /\ rreg_info_used = Cardinality(AllocWrites)
       /\ {rreg_info[k] : k \in 0..(rreg_info_used - 1)}
            = {[rreg |-> Def(r.rreg), live_after |-> Def(r.live_after),
                dead_before |-> Def(r.dead_before)] : r \in HardRanges}

\* C5: the step of stage 2 at a mention of an allocatable rreg aborts with
\* the "first event for rreg is Read" (Modify) diagnostic exactly when the
\* mention is a Read (Modify) and no Write has opened a range for the rreg;
\* otherwise a Read at ii sets the rreg's dead_before to ii and a Modify to
\* ii + 1, and its live_after stays what the Write made it.
C5_RRegFirstEventAbort ==
    [][ (AtMention("stage2") /\ Allocatable(MentionAt(ii, ih).hreg)) =>
          LET m == MentionAt(ii, ih)
              x == CHOOSE k \in DOMAIN available_real_regs :
                      available_real_regs[k] = m.hreg
          IN
          /\ (pc' = "abort" /\ diag' = "first event for rreg is Read")
                <=> (m.mode = "HRmRead" /\ ~EarlierWrite(<<ii, ih>>))
          /\ (pc' = "abort" /\ diag' = "first event for rreg is Modify")
                <=> (m.mode = "HRmModify" /\ ~EarlierWrite(<<ii, ih>>))
          /\ (m.mode = "HRmRead" /\ EarlierWrite(<<ii, ih>>)) =>
                /\ rreg_dead_before'[x] = Def(ii)
                /\ rreg_live_after'[x] = rreg_live_after[x]
          /\ (m.mode = "HRmModify" /\ EarlierWrite(<<ii, ih>>)) =>
                /\ rreg_dead_before'[x] = Def(ii + 1)
                /\ rreg_live_after'[x] = rreg_live_after[x]
      ]_vars

\* C6: the step of stage 2 at a mention, in any mode, of a real register
\* that is not in available_real_regs leaves the open ranges, the RRegInfo
\* list and its count as they are, and does not abort.
C6_OtherRRegIgnored ==
    [][ (/\ AtMention("stage2")
         /\ ~hregIsVirtual(MentionAt(ii, ih).hreg)
         /\ ~Allocatable(MentionAt(ii, ih).hreg)) =>
          /\ pc' = "stage2"
          /\ diag' = diag
          /\ ih' = ih + 1
          /\ UNCHANGED <<rreg_live_after, rreg_dead_before, rreg_info,
                         rreg_info_used, rreg_state>>
      ]_vars

\* Stage 2 has gone past a Read, the first event, of the register beyond
\* the allocator's control.
C6_Witness ==
    /\ pc = "stage2"
    /\ ii = 0
    /\ ih = 1
    /\ MentionAt(0, 0) = [hreg |-> OtherRReg, mode |-> "HRmRead"]


Used(v) == vreg_info[v].live_after # -1
UsedVRegs == {v \in 0..(n_vregs - 1) : Used(v)}
MonotoneLiveAfter ==
    \A a, b \in UsedVRegs :
       a < b => vreg_info[a].live_after <= vreg_info[b].live_after
Disjoint(a, b) ==
    \/ vreg_info[a].dead_before <= vreg_info[b].live_after
    \/ vreg_info[b].dead_before <= vreg_info[a].live_after

\* C7: after stage 3, on an input whose used vregs have live_after
\* non-decreasing in vreg index, two distinct used vregs with the same
\* spill_offset have disjoint live ranges.
C7_SharedSlotDisjoint ==
    (Stage3Completed /\ MonotoneLiveAfter) =>
       \A a, b \in UsedVRegs :
          (a # b /\ vreg_info[a].spill_offset = vreg_info[b].spill_offset)
             => Disjoint(a, b)

\* Stage 3 has completed on such an input and gave one slot to two vregs
\* and another slot to a third.
C7_Witness ==
    /\ Stage3Completed
    /\ MonotoneLiveAfter
    /\ \E a, b, c \in UsedVRegs :
          /\ a # b
          /\ vreg_info[a].spill_offset = vreg_info[b].spill_offset
          /\ vreg_info[c].spill_offset # vreg_info[a].spill_offset

\* C8: a step of stage 3 handles vreg i and moves on to i + 1.  For a used
\* vreg it takes the lowest-numbered slot j with busy_until_before[j] <=
\* live_after, sets spill_offset = 8 * j (a multiple of 8 in
\* 0 .. 8 * N_SPILL64S - 1) and busy_until_before[j] = dead_before, and
\* changes no other slot and no other vreg; an unused vreg keeps
\* spill_offset 0 and no slot changes.
C8_FirstFit ==
    [][ (pc = "stage3" /\ i < n_vregs /\ pc' # "abort") =>
          /\ i' = i + 1
          /\ \A v \in 0..(n_vregs - 1) : v # i => vreg_info'[v] = vreg_info[v]
          /\ IF vreg_info[i].live_after = -1
             THEN /\ vreg_info'[i] = vreg_info[i]
                  /\ vreg_info[i].spill_offset = 0
                  /\ ss_busy_until_before' = ss_busy_until_before
             ELSE \E j \in 0..(N_SPILL64S - 1) :
                     /\ ss_busy_until_before[j] <= vreg_info[i].live_after
                     /\ \A k \in 0..(j - 1) :
                           ss_busy_until_before[k] > vreg_info[i].live_after
                     /\ vreg_info'[i] =
                           [vreg_info[i] EXCEPT !.spill_offset = 8 * j]
                     /\ vreg_info'[i].spill_offset % 8 = 0
                     /\ vreg_info'[i].spill_offset >= 0
                     /\ vreg_info'[i].spill_offset < 8 * N_SPILL64S
                     /\ ss_busy_until_before' =
                           [ss_busy_until_before EXCEPT
                              ![j] = vreg_info[i].dead_before]
      ]_vars

\* Stage 3 has given a vreg a slot other than slot 0 while a lower slot
\* was busy, and has skipped an unused vreg.
C8_Witness ==
    /\ pc = "stage3"
    /\ \E v \in 0..(i - 1) : Used(v) /\ vreg_info[v].spill_offset = 8
    /\ \E v \in 0..(i - 1) : ~Used(v)

\* The vregs live just after instruction t, and whether more of them are
\* live at once than there are slots.
LiveAt(t) ==
    {v \in UsedVRegs :
        vreg_info[v].live_after <= t /\ t < vreg_info[v].dead_before}
Overloaded ==
    \E t \in 0..n_instrs : Cardinality(LiveAt(t)) > N_SPILL64S

\* C9: a step of stage 3 aborts with "N_SPILL64S is too low" exactly when
\* vreg i is used and every slot has busy_until_before > its live_after,
\* and no other step gives that diagnostic; and stage 3 does not complete
\* when more than N_SPILL64S vregs are live at once.
C9_PoolExhausted ==
    [][ /\ (pc = "stage3" /\ i < n_vregs) =>
              ((pc' = "abort" /\ diag' = "N_SPILL64S is too low")
                 <=> (/\ vreg_info[i].live_after # -1
                      /\ \A j \in 0..(N_SPILL64S - 1) :
                            ss_busy_until_before[j]
                               > vreg_info[i].live_after))
        /\ (diag' = "N_SPILL64S is too low" /\ diag # diag') =>
              (pc = "stage3" /\ i < n_vregs)
        /\ (pc' \in {"stage5", "done"} /\ pc = "stage3") => ~Overloaded
      ]_vars

\* Stage 3 has aborted with more vregs live at once than slots.
C9_Witness ==
    /\ pc = "abort"
    /\ diag = "N_SPILL64S is too low"
    /\ Overloaded

\* C10: at the start of every instruction ii of stage 5, the rreg of every
\* hard live range with live_after < ii < dead_before is Unavail.
C10_HardRangeIsUnavail ==
    (pc = "stage5" /\ ii < n_instrs) =>
       \A r \in HardRanges :
          (r.live_after < ii /\ ii < r.dead_before) =>
             \A x \in DOMAIN rreg_state :
                rreg_state[x].rreg = r.rreg => rreg_state[x].disp = "Unavail"


\* The loop of stage 5 is about to process instruction ii.
AtInstruction == pc = "stage5" /\ ii < n_instrs

\* Entry k of the recorded hard live ranges is a range of rreg h that has
\* instruction at strictly inside it.
RecordedAcross(k, h, at) ==
    /\ rreg_info[k].rreg = Def(h)
    /\ rreg_info[k].live_after.def
    /\ rreg_info[k].dead_before.def
    /\ rreg_info[k].live_after.val < at
    /\ at < rreg_info[k].dead_before.val

Rewritten(k, regs) == [kind |-> "insn", index |-> k, regs |-> regs]
SpillOf(v) == [kind |-> "spill", vreg |-> v]
ReloadOf(v) == [kind |-> "reload", vreg |-> v]
Emitted(e) == {p \in DOMAIN output : output[p] = e}
EmittedInsn(k) ==
    {p \in DOMAIN output : output[p].kind = "insn" /\ output[p].index = k}

\* The input is the scenario S4: v0 written at 0 and read at 5, the only
\* allocatable rreg of v0's class written at 3.
S4Input ==
    /\ n_instrs = 6
    /\ n_vregs >= 1
    /\ instrs[1] = <<Mention(VReg(0), "HRmWrite")>>
    /\ instrs[4] = <<Mention(RReg(0), "HRmWrite")>>
    /\ instrs[6] = <<Mention(VReg(0), "HRmRead")>>
    /\ \A x \in DOMAIN available_real_regs :
          hregClass(available_real_regs[x]) = hregClass(VReg(0))
             => available_real_regs[x] = RReg(0)

\* C14: on the scenario S4 the output holds a spill of v0 before the
\* rewritten instruction 3 and a reload of v0 before the rewritten
\* instruction 5.
C14_S4SpillAndReload ==
    (pc = "done" /\ S4Input) =>
       /\ \E a \in Emitted(SpillOf(VReg(0))), b \in EmittedInsn(3) :
             a < b
       /\ \E c \in Emitted(ReloadOf(VReg(0))), d \in EmittedInsn(5) :
             c < d

\* The registers instruction k of the input mentions.
RegsOf(k) == {instrs[k + 1][h].hreg : h \in DOMAIN instrs[k + 1]}

\* C15: when the function ends without aborting, its output mentions no
\* virtual register and holds every instruction of the input, rewritten,
\* in the order of the input; with n_vregs = 0 the output is the input.
C15_OutputIsTheRewrittenInput ==
    pc = "done" =>
       /\ \A p \in DOMAIN output :
             output[p].kind = "insn" =>
                \A r \in output[p].regs : ~hregIsVirtual(r)
       /\ \A k \in 0..(n_instrs - 1) : EmittedInsn(k) # {}
       /\ \A j, k \in 0..(n_instrs - 1) :
             j < k => \E a \in EmittedInsn(j), b \in EmittedInsn(k) : a < b
       /\ n_vregs = 0 =>
             output = [k \in 1..n_instrs |-> Rewritten(k - 1, RegsOf(k - 1))]

\* The mention at position q is of a vreg whose number is not an index of
\* the VRegInfo table.
OutOfRange(q) ==
    /\ hregIsVirtual(MentionAt(q[1], q[2]).hreg)
    /\ ~VRegInRange(q)

\* C16: when stage 1 comes to a mention of a vreg numbered outside
\* 0 .. n_vregs-1 it aborts there and leaves the VRegInfo table as it
\* was, so stage 1 completes only on inputs with no such mention.
C16_OutOfRangeVRegAborts ==
    [][ /\ (AtMention("stage1") /\ OutOfRange(<<ii, ih>>)) =>
              /\ pc' = "abort"
              /\ diag' = "assert(iv >= 0 && iv < n_vregs)"
              /\ vreg_info' = vreg_info
        /\ (pc = "stage1" /\ pc' = "stage2") =>
              \A q \in Positions : ~OutOfRange(q)
      ]_vars

\* Stage 1 has aborted at a mention of a vreg beyond a table that is not
\* empty, after an earlier mention has updated the table.
C16_Witness ==
    /\ pc = "abort"
    /\ diag = "assert(iv >= 0 && iv < n_vregs)"
    /\ n_vregs > 0
    /\ OutOfRange(<<ii, ih>>)
    /\ \E v \in 0..(n_vregs - 1) : vreg_info[v].live_after # -1

\* The vreg that rreg x holds is dead before instruction at.
DeadBinding(x, at) ==
    /\ rreg_state[x].disp = "Bound"
    /\ vreg_info[hregNumber(rreg_state[x].vreg)].dead_before = at

\* C17: the expire step at instruction ii sets Free every rreg Bound to a
\* vreg whose dead_before is ii, leaves every other entry with the
\* disposition and the vreg it had, and changes nothing else.
C17_ExpireFreesTheDead ==
    [][ (pc = "stage5" /\ ii' = ii + 1) =>
          /\ DOMAIN rreg_state' = DOMAIN rreg_state
          /\ \A x \in DOMAIN rreg_state :
                /\ rreg_state'[x].rreg = rreg_state[x].rreg
                /\ IF DeadBinding(x, ii)
                   THEN rreg_state'[x].disp = "Free"
                   ELSE /\ rreg_state'[x].disp = rreg_state[x].disp
                        /\ rreg_state'[x].vreg = rreg_state[x].vreg
          /\ UNCHANGED <<instrs, n_vregs, output, pc, diag, vreg_info,
                         rreg_info, rreg_info_used, ss_busy_until_before>>
      ]_vars

\* The expire step of instruction 0 has left an rreg Bound to a vreg that
\* is dead before instruction 1, whose expire step is about to free it,
\* while another rreg is Unavail.
C17_Witness ==
    /\ AtInstruction
    /\ ii = 1
    /\ \E x, y \in DOMAIN rreg_state :
          /\ DeadBinding(x, ii)
          /\ rreg_state[y].disp = "Unavail"

\* C18: when the used vregs have live_after non-decreasing in their index
\* and at no instruction boundary more than N_SPILL64S vregs are live at
\* once, stage 3 does not abort.
C18_MonotoneNeverExhausts ==
    (MonotoneLiveAfter /\ ~Overloaded) =>
       ~(pc = "abort" /\ diag = "N_SPILL64S is too low")

\* Every entry of the running state is Free and holds no vreg.
AllFree ==
    /\ DOMAIN rreg_state = 0..(n_available_real_regs - 1)
    /\ \A x \in DOMAIN rreg_state :
          /\ rreg_state[x].rreg = available_real_regs[x]
          /\ rreg_state[x].disp = "Free"
          /\ rreg_state[x].vreg = INVALID_HREG

=============================================================================
